---- MODULE Spec2Model ----
(***************************************************************************)
(* Model of flask_authentic/account/views.py: the account views, their     *)
(* configuration lookups and the request each one forwards to its          *)
(* use-case.  A request arrives, is dispatched through the view's          *)
(* decorators, is handled by the view's method, and finishes.              *)
(***************************************************************************)
EXTENDS Integers, Sequences, FiniteSets, TLC

\* ---------------------------------------------------------------- bounds
NumAccounts == 2
NumTokens == 2

\* ------------------------------------------------------- request inputs
\* context.account: an account entity, or nothing when nobody is logged in.
NoAccount == [id |-> 0]
Accounts == {[id |-> i] : i \in 1..NumAccounts}
AccountId(a) == a.id

\* The URL parameter of ResetPasswordResource.post.
NoToken == 0
Tokens == 1..NumTokens

\* request.payload: the decoded request body, a mapping chosen by the caller.
\* A forged body names an account and a token of the caller's choosing.
PlainBody == [password |-> 7]
ForgedToken(a) == (AccountId(a) % NumTokens) + 1
ForgedBody(a) ==
  [password |-> 7, identifier |-> AccountId(a), id |-> AccountId(a),
   account |-> a, token |-> ForgedToken(a)]
Bodies == {PlainBody} \cup {ForgedBody(a) : a \in Accounts}

\* ------------------------------------------------------ the seven views
Views ==
  {"CreateAccountResource", "UpdateAccountResource", "ChangePasswordResource",
   "SendResetPasswordEmailResource", "ResetPasswordResource", "LoginResource",
   "LogoutResource"}

\* LoginResource with the use-case of the class below it.
usecase_cls_login_copied(v) ==
  CASE v = "CreateAccountResource" -> "CreateAccountUseCase"
    [] v = "UpdateAccountResource" -> "UpdateAccountUseCase"
    [] v = "ChangePasswordResource" -> "ChangeAccountPasswordUseCase"
    [] v = "SendResetPasswordEmailResource" -> "SendResetPasswordEmailUsecase"
    [] v = "ResetPasswordResource" -> "ResetPasswordUsecase"
    [] v = "LoginResource" -> "LogoutUseCase"
    [] v = "LogoutResource" -> "LogoutUseCase"

usecase_cls(v) ==
  CASE v = "CreateAccountResource" -> "CreateAccountUseCase"
    [] v = "UpdateAccountResource" -> "UpdateAccountUseCase"
    [] v = "ChangePasswordResource" -> "ChangeAccountPasswordUseCase"
    [] v = "SendResetPasswordEmailResource" -> "SendResetPasswordEmailUsecase"
    [] v = "ResetPasswordResource" -> "ResetPasswordUsecase"
    [] v = "LoginResource" -> "LoginUseCase"
    [] v = "LogoutResource" -> "LogoutUseCase"

request_object_cls(v) ==
  CASE v = "CreateAccountResource" -> "CreateAccountRequestObject"
    [] v = "UpdateAccountResource" -> "UpdateAccountRequestObject"
    [] v = "ChangePasswordResource" -> "ChangeAccountPasswordRequestObject"
    [] v = "SendResetPasswordEmailResource" -> "SendResetPasswordEmailRequestObject"
    [] v = "ResetPasswordResource" -> "ResetPasswordRequestObject"
    [] v = "LoginResource" -> "LoginRequestObject"
    [] v = "LogoutResource" -> "LogoutRequestObject"

\* The class attribute `decorators`; a view that sets none inherits the empty list.
decorators_no_logout(v) ==
  IF v \in {"CreateAccountResource", "UpdateAccountResource",
            "ChangePasswordResource"}
  THEN <<"is_authenticated">>
  ELSE << >>

decorators(v) ==
  IF v \in {"CreateAccountResource", "UpdateAccountResource",
            "ChangePasswordResource", "LogoutResource"}
  THEN <<"is_authenticated">>
  ELSE << >>

\* ------------------------------------------------------- configuration
None == "<None>"
SchemaPath == "app.schemas.AccountSchema"
SerializerPath == "app.serializers.AccountSerializer"
Configs ==
  [ACCOUNT_SCHEMA_CLS : {None, "", SchemaPath},
   ACCOUNT_SERIALIZER_CLS : {None, "", SerializerPath}]

\* Python truthiness of a setting: `not x` holds for None and for "".
Falsy(x) == x \in {None, ""}

\* The message is the source's, without the backquotes around the setting name.
ConfigurationError(msg) == [kind |-> "ConfigurationError", val |-> msg, imported |-> << >>]

\* perform_import(path): the class the dotted path names; the path is recorded.
perform_import(path) == [kind |-> "class", val |-> path, imported |-> <<path>>]

get_schema_cls_none_only(cfg) ==
  IF cfg.ACCOUNT_SCHEMA_CLS = None
  THEN ConfigurationError("ACCOUNT_SCHEMA_CLS has not been set in the config.")
  ELSE perform_import(cfg.ACCOUNT_SCHEMA_CLS)

get_schema_cls(cfg) ==
  IF Falsy(cfg.ACCOUNT_SCHEMA_CLS)
  THEN ConfigurationError("ACCOUNT_SCHEMA_CLS has not been set in the config.")
  ELSE perform_import(cfg.ACCOUNT_SCHEMA_CLS)

get_serializer_cls_reads_schema(cfg) ==
  IF Falsy(cfg.ACCOUNT_SCHEMA_CLS)
  THEN ConfigurationError("ACCOUNT_SCHEMA_CLS has not been set in the config.")
  ELSE perform_import(cfg.ACCOUNT_SERIALIZER_CLS)

get_serializer_cls(cfg) ==
  IF Falsy(cfg.ACCOUNT_SERIALIZER_CLS)
  THEN ConfigurationError("ACCOUNT_SERIALIZER_CLS has not been set in the config.")
  ELSE perform_import(cfg.ACCOUNT_SERIALIZER_CLS)

\* ------------------------------------------------ use-case invocation
\* What the use-case layer can hand back: an Entity, any other response
\* object (a failure response, say), or a raised business-logic error.
Responses ==
  {[kind |-> "entity", val |-> "account"],
   [kind |-> "value", val |-> "failure"],
   [kind |-> "raise", val |-> "UseCaseError"]}

NoResult == [kind |-> "none", val |-> ""]
Unauthorized == [kind |-> "value", val |-> "401"]
AttributeError == [kind |-> "raise", val |-> "AttributeError"]

isinstance_Entity(r) == r.kind = "entity"
to_dict(r) == [kind |-> "dict", val |-> r.val]

\* One call of self._process_request(usecase, request_object, payload=..,
\* no_serialization=..), together with what it handed back.
process_request(uc, ro, pl, noser, resp) ==
  [usecase |-> uc, request_object |-> ro, payload |-> pl,
   no_serialization |-> noser, response |-> resp]

\* ------------------------------------------------------ payload builders
ChangePasswordPayload_from_body(acct, body) ==
  [identifier |-> IF "identifier" \in DOMAIN body THEN body.identifier
                  ELSE AccountId(acct),
   data |-> body]

ChangePasswordPayload(acct, body) ==
  [identifier |-> AccountId(acct), data |-> body]

ResetPasswordPayload_body_wins(tok, body) ==
  [token |-> IF "token" \in DOMAIN body THEN body.token ELSE tok,
   data |-> body]

ResetPasswordPayload(tok, body) ==
  [token |-> tok, data |-> body]

LogoutPayload_from_body(acct, body) ==
  [account |-> IF "account" \in DOMAIN body THEN body.account ELSE acct]

LogoutPayload(acct, body) ==
  [account |-> acct]

LoginReturn_raw(response) == response

LoginReturn(response) ==
  IF isinstance_Entity(response) THEN to_dict(response) ELSE response

\* ------------------------------------------------------------- state
VARIABLES
  active_config,  \* protean.conf.active_config
  pc,             \* "idle", "dispatch", "handler", "done"
  view,           \* the view class the current request is routed to
  account,        \* context.account
  payload,        \* request.payload
  token,          \* the URL parameter (ResetPasswordResource only)
  auth,           \* "unchecked", "passed", "failed": the is_authenticated check
  calls,          \* the _process_request calls made for the current request
  result,         \* what the request returned
  prev,           \* the request handled before this one
  lookup          \* the last get_schema_cls / get_serializer_cls call

vars ==
  <<active_config, pc, view, account, payload, token, auth, calls, result,
    prev, lookup>>

request_ctx == <<active_config, account, payload, token>>

NoPrev ==
  [view |-> "none", account |-> NoAccount, payload |-> PlainBody,
   auth |-> "unchecked", forwarded |-> << >>]
NoLookup == [fn |-> "none", kind |-> "none", val |-> "", imported |-> << >>]

Init ==
  /\ active_config \in Configs
  /\ pc = "idle"
  /\ view = "none"
  /\ account = NoAccount
  /\ payload = PlainBody
  /\ token = NoToken
  /\ auth = "unchecked"
  /\ calls = << >>
  /\ result = NoResult
  /\ prev = NoPrev
  /\ lookup = NoLookup

\* ------------------------------------------------------------ lookups
Lookup(fn, r) ==
  [fn |-> fn, kind |-> r.kind, val |-> r.val, imported |-> r.imported]

GetSchemaCls ==
  /\ lookup' = Lookup("get_schema_cls", get_schema_cls(active_config))
  /\ UNCHANGED <<active_config, pc, view, account, payload, token, auth,
                 calls, result, prev>>

GetSerializerCls ==
  /\ lookup' = Lookup("get_serializer_cls", get_serializer_cls(active_config))
  /\ UNCHANGED <<active_config, pc, view, account, payload, token, auth,
                 calls, result, prev>>

\* ----------------------------------------------------------- requests
\* A request is routed to a view; the request context and body are set.
Arrive ==
  /\ pc = "idle"
  /\ \E v \in Views, a \in Accounts \cup {NoAccount}, b \in Bodies, t \in Tokens :
       /\ view' = v
       /\ account' = a
       /\ payload' = b
       /\ token' = IF v = "ResetPasswordResource" THEN t ELSE NoToken
  /\ pc' = "dispatch"
  /\ auth' = "unchecked"
  /\ calls' = << >>
  /\ result' = NoResult
  /\ UNCHANGED <<active_config, prev, lookup>>

\* The is_authenticated check: it passes when the request carries an account.
is_authenticated(acct) == acct # NoAccount

\* The view function wrapped in the view's decorators.
Dispatch ==
  /\ pc = "dispatch"
  /\ IF Len(decorators(view)) > 0
     THEN IF is_authenticated(account)
          THEN auth' = "passed" /\ pc' = "handler" /\ result' = result
          ELSE auth' = "failed" /\ pc' = "done" /\ result' = Unauthorized
     ELSE auth' = auth /\ pc' = "handler" /\ result' = result
  /\ UNCHANGED <<active_config, view, account, payload, token, calls, prev,
                 lookup>>

\* CreateAPIResource.post / UpdateAPIResource.put, inherited unchanged.
InheritedHandler ==
  /\ pc = "handler"
  /\ view \in {"CreateAccountResource", "UpdateAccountResource"}
  /\ \E resp \in Responses :
       /\ calls' = <<process_request(usecase_cls(view), request_object_cls(view),
                                     payload, FALSE, resp)>>
       /\ result' = resp
  /\ pc' = "done"
  /\ UNCHANGED <<active_config, view, account, payload, token, auth, prev,
                 lookup>>

ChangePasswordPost ==
  /\ pc = "handler"
  /\ view = "ChangePasswordResource"
  /\ IF account = NoAccount
     THEN calls' = << >> /\ result' = AttributeError
     ELSE \E resp \in Responses :
            /\ calls' = <<process_request(usecase_cls(view),
                                          request_object_cls(view),
                                          ChangePasswordPayload(account, payload),
                                          TRUE, resp)>>
            /\ result' = resp
  /\ pc' = "done"
  /\ UNCHANGED <<active_config, view, account, payload, token, auth, prev,
                 lookup>>

SendResetPasswordEmailPost ==
  /\ pc = "handler"
  /\ view = "SendResetPasswordEmailResource"
  /\ \E resp \in Responses :
       /\ calls' = <<process_request(usecase_cls(view), request_object_cls(view),
                                     payload, TRUE, resp)>>
       /\ result' = resp
  /\ pc' = "done"
  /\ UNCHANGED <<active_config, view, account, payload, token, auth, prev,
                 lookup>>

\* request.payload['token'] = token, then the body is forwarded.
ResetPasswordPost_writes_payload ==
  /\ pc = "handler"
  /\ view = "ResetPasswordResource"
  /\ payload' = [k \in DOMAIN payload \cup {"token"} |->
                   IF k = "token" THEN token ELSE payload[k]]
  /\ \E resp \in Responses :
       /\ calls' = <<process_request(usecase_cls(view), request_object_cls(view),
                                     ResetPasswordPayload(token, payload),
                                     TRUE, resp)>>
       /\ result' = resp
  /\ pc' = "done"
  /\ UNCHANGED <<active_config, view, account, token, auth, prev, lookup>>

ResetPasswordPost ==
  /\ pc = "handler"
  /\ view = "ResetPasswordResource"
  /\ \E resp \in Responses :
       /\ calls' = <<process_request(usecase_cls(view), request_object_cls(view),
                                     ResetPasswordPayload(token, payload),
                                     TRUE, resp)>>
       /\ result' = resp
  /\ pc' = "done"
  /\ UNCHANGED <<active_config, view, account, payload, token, auth, prev,
                 lookup>>

LoginPost ==
  /\ pc = "handler"
  /\ view = "LoginResource"
  /\ \E resp \in Responses :
       /\ calls' = <<process_request(usecase_cls(view), request_object_cls(view),
                                     payload, TRUE, resp)>>
       /\ result' = LoginReturn(resp)
  /\ pc' = "done"
  /\ UNCHANGED <<active_config, view, account, payload, token, auth, prev,
                 lookup>>

\* A raised error is caught and None is returned.
LogoutPost_swallows ==
  /\ pc = "handler"
  /\ view = "LogoutResource"
  /\ \E resp \in Responses :
       /\ calls' = <<process_request(usecase_cls(view), request_object_cls(view),
                                     LogoutPayload(account, payload),
                                     TRUE, resp)>>
       /\ result' = IF resp.kind = "raise" THEN [kind |-> "value", val |-> "None"]
                    ELSE resp
  /\ pc' = "done"
  /\ UNCHANGED <<active_config, view, account, payload, token, auth, prev,
                 lookup>>

LogoutPost ==
  /\ pc = "handler"
  /\ view = "LogoutResource"
  /\ \E resp \in Responses :
       /\ calls' = <<process_request(usecase_cls(view), request_object_cls(view),
                                     LogoutPayload(account, payload),
                                     TRUE, resp)>>
       /\ result' = resp
  /\ pc' = "done"
  /\ UNCHANGED <<active_config, view, account, payload, token, auth, prev,
                 lookup>>

\* The response is sent and the request context is torn down.
Finish ==
  /\ pc = "done"
  /\ prev' = [view |-> view, account |-> account, payload |-> payload,
              auth |-> auth,
              forwarded |-> [i \in 1..Len(calls) |-> calls[i].payload]]
  /\ pc' = "idle"
  /\ view' = "none"
  /\ account' = NoAccount
  /\ payload' = PlainBody
  /\ token' = NoToken
  /\ auth' = "unchecked"
  /\ calls' = << >>
  /\ result' = NoResult
  /\ UNCHANGED <<active_config, lookup>>

Next ==
  \/ GetSchemaCls
  \/ GetSerializerCls
  \/ Arrive
  \/ Dispatch
  \/ InheritedHandler
  \/ ChangePasswordPost
  \/ SendResetPasswordEmailPost
  \/ ResetPasswordPost
  \/ LoginPost
  \/ LogoutPost
  \/ Finish

Spec == Init /\ [][Next]_vars

\* ------------------------------------------------------------ properties
HandlerRan == pc = "done" /\ auth # "failed"

PostViews ==
  {"ChangePasswordResource", "SendResetPasswordEmailResource",
   "ResetPasswordResource", "LoginResource", "LogoutResource"}

\* C1: get_schema_cls raises ConfigurationError exactly when ACCOUNT_SCHEMA_CLS
\* is unset or empty, and get_serializer_cls exactly when ACCOUNT_SERIALIZER_CLS
\* is; with the setting present the call returns the class imported from the
\* configured path, and with it absent nothing is imported.
LookupSetting ==
  IF lookup.fn = "get_schema_cls" THEN active_config.ACCOUNT_SCHEMA_CLS
  ELSE active_config.ACCOUNT_SERIALIZER_CLS

C1_ConfigurationErrorIffUnset ==
  lookup.fn # "none" =>
    /\ (lookup.kind = "ConfigurationError") <=> (LookupSetting \in {None, ""})
    /\ LookupSetting \in {None, ""} => lookup.imported = << >>
    /\ LookupSetting \notin {None, ""} =>
         /\ lookup.kind = "class"
         /\ lookup.val = LookupSetting
         /\ lookup.imported = <<LookupSetting>>

\* C1 witness: a lookup has raised on an empty (not None) setting.
C1_Witness ==
  /\ lookup.fn = "get_schema_cls"
  /\ active_config.ACCOUNT_SCHEMA_CLS = ""
  /\ lookup.kind = "ConfigurationError"

\* C2: every POST handler of the file calls the request-processing step exactly
\* once per handled request, with its own usecase_cls and its own
\* request_object_cls, and never with another view's classes.
C2_OneCallOwnClasses ==
  (HandlerRan /\ view \in PostViews) =>
    /\ Len(calls) = 1
    /\ calls[1].usecase = usecase_cls(view)
    /\ calls[1].request_object = request_object_cls(view)
    /\ \A w \in Views \ {view} :
         /\ calls[1].usecase # usecase_cls(w)
         /\ calls[1].request_object # request_object_cls(w)
    /\ view = "LoginResource" =>
         /\ calls[1].usecase = "LoginUseCase"
         /\ calls[1].request_object = "LoginRequestObject"

\* C2 witness: LoginResource has handled a request.
C2_Witness ==
  /\ HandlerRan
  /\ view = "LoginResource"
  /\ Len(calls) = 1

\* C3: a handler step of any of the seven views, and a get_schema_cls or
\* get_serializer_cls call (raising or not), leaves the active configuration,
\* context.account, the request payload and the URL token as they were.
C3_ViewsOwnNoState ==
  [][(pc = "handler" \/ lookup' # lookup) => UNCHANGED request_ctx]_vars

\* C3 witness: a request with an account and a forged body has been handled
\* while a lookup had raised.
C3_Witness ==
  /\ HandlerRan
  /\ Len(calls) = 1
  /\ account # NoAccount
  /\ payload # PlainBody
  /\ lookup.kind = "ConfigurationError"

\* C4: ResetPasswordResource.post forwards exactly {'token': the URL token,
\* 'data': the request payload}; a 'token' key of the body never replaces the
\* URL token.
C4_ResetForwardsUrlToken ==
  (HandlerRan /\ view = "ResetPasswordResource") =>
    /\ Len(calls) = 1
    /\ DOMAIN calls[1].payload = {"token", "data"}
    /\ calls[1].payload.token = token
    /\ calls[1].payload.data = payload

\* C4 witness: the body carries a 'token' that differs from the URL token.
C4_Witness ==
  /\ HandlerRan
  /\ view = "ResetPasswordResource"
  /\ "token" \in DOMAIN payload
  /\ payload.token # token

\* C5: for ChangePasswordResource, SendResetPasswordEmailResource,
\* ResetPasswordResource and LogoutResource, post returns exactly what the
\* request-processing step returned (or raised), asked with
\* no_serialization=True; the view adds, swallows and rewrites nothing.
C5_PassThrough ==
  (HandlerRan /\ view \in PostViews \ {"LoginResource"}) =>
    /\ Len(calls) = 1
    /\ calls[1].no_serialization = TRUE
    /\ result = calls[1].response

\* C5 witness: a raised business-logic error has come out of LogoutResource.
C5_Witness ==
  /\ HandlerRan
  /\ view = "LogoutResource"
  /\ result.kind = "raise"
  /\ result.val = "UseCaseError"

\* C6: LoginResource.post returns to_dict() of the use-case response when the
\* response is an Entity and the response itself in every other case; it never
\* returns a raw Entity.
C6_LoginSerializesEntity ==
  (HandlerRan /\ view = "LoginResource") =>
    /\ Len(calls) = 1
    /\ calls[1].response.kind = "entity" =>
         result = [kind |-> "dict", val |-> calls[1].response.val]
    /\ calls[1].response.kind # "entity" => result = calls[1].response
    /\ result.kind # "entity"

\* C6 witness: the login use-case has handed back an Entity.
C6_Witness ==
  /\ HandlerRan
  /\ view = "LoginResource"
  /\ Len(calls) = 1
  /\ calls[1].response.kind = "entity"

\* C7: for CreateAccountResource, UpdateAccountResource, ChangePasswordResource
\* and LogoutResource the handler runs, and the use-case is invoked, only after
\* the is_authenticated check has passed for that request; for
\* SendResetPasswordEmailResource, ResetPasswordResource and LoginResource no
\* check is made and the use-case is invoked whoever sends the request.
GatedViews ==
  {"CreateAccountResource", "UpdateAccountResource", "ChangePasswordResource",
   "LogoutResource"}

OpenViews ==
  {"SendResetPasswordEmailResource", "ResetPasswordResource", "LoginResource"}

C8_ChangePasswordTargetsCaller ==
  (HandlerRan /\ view = "ChangePasswordResource") =>
    /\ Len(calls) = 1
    /\ DOMAIN calls[1].payload = {"identifier", "data"}
    /\ calls[1].payload.identifier = account.id
    /\ calls[1].payload.data = payload
    /\ (prev.view = "ChangePasswordResource" /\ prev.account = account
        /\ Len(prev.forwarded) = 1) =>
         prev.forwarded[1].identifier = calls[1].payload.identifier

\* C8 witness: two change-password requests of one account with different
\* bodies, the second naming another account.
C8_Witness ==
  /\ HandlerRan
  /\ view = "ChangePasswordResource"
  /\ prev.view = "ChangePasswordResource"
  /\ prev.account = account
  /\ prev.payload # payload
  /\ "identifier" \in DOMAIN payload
  /\ payload.identifier # account.id

\* C9: LogoutResource.post forwards a payload with the single key 'account',
\* bound to the authenticated account; two requests by the same account
\* forward the same payload whatever their bodies say.
C9_LogoutIgnoresBody ==
  (HandlerRan /\ view = "LogoutResource") =>
    /\ Len(calls) = 1
    /\ DOMAIN calls[1].payload = {"account"}
    /\ calls[1].payload.account = account
    /\ (prev.view = "LogoutResource" /\ prev.account = account
        /\ Len(prev.forwarded) = 1) =>
         prev.forwarded[1] = calls[1].payload

\* C9 witness: two logout requests of one account with different bodies, the
\* second naming another account.
C9_Witness ==
  /\ HandlerRan
  /\ view = "LogoutResource"
  /\ prev.view = "LogoutResource"
  /\ prev.account = account
  /\ prev.payload # payload
  /\ "account" \in DOMAIN payload
  /\ payload.account # account

\* C10: get_schema_cls depends on ACCOUNT_SCHEMA_CLS alone and
\* get_serializer_cls on ACCOUNT_SERIALIZER_CLS alone: with one setting missing
\* the lookup of the other succeeds, and the error names the missing setting.
C10_LookupsIndependent ==
  /\ \A c \in Configs :
       /\ c.ACCOUNT_SCHEMA_CLS = active_config.ACCOUNT_SCHEMA_CLS =>
            get_schema_cls(c) = get_schema_cls(active_config)
       /\ c.ACCOUNT_SERIALIZER_CLS = active_config.ACCOUNT_SERIALIZER_CLS =>
            get_serializer_cls(c) = get_serializer_cls(active_config)
  /\ (lookup.fn = "get_schema_cls" /\ lookup.kind = "ConfigurationError") =>
       lookup.val = "ACCOUNT_SCHEMA_CLS has not been set in the config."
  /\ (lookup.fn = "get_serializer_cls" /\ lookup.kind = "ConfigurationError") =>
       lookup.val = "ACCOUNT_SERIALIZER_CLS has not been set in the config."
  /\ (lookup.fn = "get_serializer_cls"
      /\ active_config.ACCOUNT_SCHEMA_CLS \in {None, ""}
      /\ active_config.ACCOUNT_SERIALIZER_CLS \notin {None, ""}) =>
       lookup.kind = "class"
  /\ (lookup.fn = "get_schema_cls"
      /\ active_config.ACCOUNT_SERIALIZER_CLS \in {None, ""}
      /\ active_config.ACCOUNT_SCHEMA_CLS \notin {None, ""}) =>
       lookup.kind = "class"

\* C10 witness: with only the schema setting missing, the serializer lookup
\* has succeeded.
C10_Witness ==
  /\ active_config.ACCOUNT_SCHEMA_CLS = None
  /\ active_config.ACCOUNT_SERIALIZER_CLS = SerializerPath
  /\ lookup.fn = "get_serializer_cls"
  /\ lookup.kind = "class"
====
